---------------------------- MODULE Spec2Model ----------------------------
(***************************************************************************)
(* A model of the two programs of the repository:                          *)
(*   sha3-256.c  the SHA3-256 sponge driver (main), pad_input,             *)
(*               absorb_input and the Keccak-f[1600] permutation (keccak); *)
(*   primes.c    the prime / safe prime / full-period generator utility.   *)
(*                                                                         *)
(* A 64-bit lane (uint64_t) is the set of its bit positions that are 1, a  *)
(* subset of 0..63 (bit 0 is the least significant bit).  A byte is an     *)
(* integer in 0..255.  The 5x5 state is indexed flat: state[row][col] of   *)
(* the C code is state[row * 5 + col] here.                                *)
(*                                                                         *)
(* The diagnostic dumps of verbose mode (print_state, print_input,         *)
(* print_lanes) read the program's data and change none of it; of the      *)
(* verbose output only the "Hash val is" lines are kept, in hashval.       *)
(***************************************************************************)
EXTENDS Integers, Sequences, FiniteSets

VARIABLES
    pc,          \* position of main of sha3-256.c
    verbose,     \* the -v flag
    infile,      \* the opened stream: length, content seed, position, error flag
    input,       \* the 200-byte block buffer
    bytes_read,  \* result of the last fread
    state,       \* the 25 lanes
    round,       \* keccak's loop variable
    kpc,         \* the step of the round keccak is about to execute
    absorbed,    \* history: bytes_read of every absorb_input call so far
    permuted,    \* history: number of completed keccak calls
    rounds_run,  \* history: rounds completed by the current keccak call
    hashval,     \* what the verbose "Hash val is" loop printed
    result,      \* what the final printf printed (without the newline)
    ppc,         \* position of main of primes.c
    mpz_n,       \* n, the input number
    mpz_q,       \* q = (n - 1) / 2
    loop_i,      \* the loop variable i of the generator search
    verdict,     \* the classification lines printed so far
    generators   \* the i printed as "a full-period generator"

svars == <<pc, verbose, infile, input, bytes_read, state, round, kpc,
           absorbed, permuted, rounds_run, hashval, result>>
pvars == <<ppc, mpz_n, mpz_q, loop_i, verdict, generators>>
vars == <<svars, pvars>>

---------------------------------------------------------------------------
(* Bounds of the model *)

\* longest input file, in bytes
MaxLen == 273
\* largest content seed: byte k of the file with seed s is (s + 7 * k) % 256
MaxSeed == 1
\* a failing fread delivers at most this many bytes
MaxErrBytes == 1
\* largest number given to primes
MaxN == 60

---------------------------------------------------------------------------
(* Program constants of sha3-256.c *)

\* one round short
KECCAK_ROUNDS_SHORT == 24 - 1
KECCAK_ROUNDS == 24
RATE_BYTES == 136
CAPACITY_BYTES == 64
BUF_BYTES == RATE_BYTES + CAPACITY_BYTES

ZeroLane == {}

XOR64(a, b) == (a \ b) \cup (b \ a)
AND64(a, b) == a \cap b
NOT64(a) == (0..63) \ a
ROTL64(x, r) == {(b + r) % 64 : b \in x}

\* bit b of byte v
ByteBit(v, b) == (v \div (2 ^ b)) % 2 = 1

round_constants ==
    << {0},                      \* 0x0000000000000001
       {1, 7, 15},               \* 0x0000000000008082
       {1, 3, 7, 15, 63},        \* 0x800000000000808a
       {15, 31, 63},             \* 0x8000000080008000
       {0, 1, 3, 7, 15},         \* 0x000000000000808b
       {0, 31},                  \* 0x0000000080000001
       {0, 7, 15, 31, 63},       \* 0x8000000080008081
       {0, 3, 15, 63},           \* 0x8000000000008009
       {1, 3, 7},                \* 0x000000000000008a
       {3, 7},                   \* 0x0000000000000088
       {0, 3, 15, 31},           \* 0x0000000080008009
       {1, 3, 31},               \* 0x000000008000000a
       {0, 1, 3, 7, 15, 31},     \* 0x000000008000808b
       {0, 1, 3, 7, 63},         \* 0x800000000000008b
       {0, 3, 7, 15, 63},        \* 0x8000000000008089
       {0, 1, 15, 63},           \* 0x8000000000008003
       {1, 15, 63},              \* 0x8000000000008002
       {7, 63},                  \* 0x8000000000000080
       {1, 3, 15},               \* 0x000000000000800a
       {1, 3, 31, 63},           \* 0x800000008000000a
       {0, 7, 15, 31, 63},       \* 0x8000000080008081
       {7, 15, 63},              \* 0x8000000000008080
       {0, 31},                  \* 0x0000000080000001
       {3, 15, 31, 63} >>        \* 0x8000000080008008

rho_rotations ==
    <<  1,  3,  6, 10, 15, 21, 28, 36, 45, 55,  2, 14,
       27, 41, 56,  8, 25, 43, 62, 18, 39, 61, 20, 44 >>

pi_shifts ==
    << 10,  7, 11, 17, 18,  3,  5, 16,  8, 21, 24,  4,
       15, 23, 19, 13, 12,  2, 20, 14, 22,  9,  6,  1 >>

\* the C arrays are indexed from 0
RC(r) == round_constants[r + 1]
Rho(i) == rho_rotations[i + 1]
Pi(i) == pi_shifts[i + 1]

---------------------------------------------------------------------------
(* The byte source *)

\* byte k (from 0) of the file
FileByte(f, k) == (f.seed + 7 * k) % 256

Min(a, b) == IF a < b THEN a ELSE b

\* fread(input, 1, RATE_BYTES, infile) without error: how many bytes it yields
FreadCount(f) == Min(RATE_BYTES, f.len - f.pos)

\* the buffer after a fread that yields cnt bytes
FreadInto(buf, f, cnt) ==
    [k \in 0..(BUF_BYTES - 1) |-> IF k < cnt THEN FileByte(f, f.pos + k) ELSE buf[k]]

\* memset(input, 0, RATE_BYTES + CAPACITY_BYTES)
ZeroBuf == [k \in 0..(BUF_BYTES - 1) |-> 0]

---------------------------------------------------------------------------
(* pad_input *)

\* the value of i when the zero-filling loop "for (i = 1; i < q - 2; i++)" ends
PadLoopEnd(qq) == IF qq - 2 > 1 THEN qq - 2 ELSE 1

\* pad_input with the loop counting the zero bytes one short: the closing
\* 0x80 lands at offset input_len + i
pad_input_short(buf, input_len) ==
    IF input_len < RATE_BYTES
    THEN LET qq == RATE_BYTES - (input_len % RATE_BYTES)
         IN  IF qq = 1
             THEN [buf EXCEPT ![input_len] = 134]
             ELSE IF qq = 2
             THEN [buf EXCEPT ![input_len] = 6, ![input_len + 1] = 128]
             ELSE LET iend == PadLoopEnd(qq)
                  IN  [k \in 0..(BUF_BYTES - 1) |->
                         IF k = input_len + iend THEN 128
                         ELSE IF k = input_len THEN 6
                         ELSE IF k > input_len /\ k < input_len + iend THEN 0
                         ELSE buf[k]]
    ELSE buf

pad_input(buf, input_len) ==
    IF input_len < RATE_BYTES
    THEN LET qq == RATE_BYTES - (input_len % RATE_BYTES)
         IN  IF qq = 1
             THEN [buf EXCEPT ![input_len] = 134]                  \* 0x86
             ELSE IF qq = 2
             THEN [buf EXCEPT ![input_len] = 6,                    \* 0x06
                              ![input_len + 1] = 128]              \* 0x80
             ELSE LET iend == PadLoopEnd(qq)
                  IN  [k \in 0..(BUF_BYTES - 1) |->
                         IF k = input_len + iend + 1 THEN 128
                         ELSE IF k = input_len THEN 6
                         ELSE IF k > input_len /\ k < input_len + iend THEN 0
                         ELSE buf[k]]
    ELSE buf

---------------------------------------------------------------------------
(* absorb_input *)

\* input_word of lane i: bytes 8i .. 8i+7, little-endian
InputWord(buf, i) ==
    {8 * j + b : j \in 0..7, b \in 0..7} \cap
    {p \in 0..63 : ByteBit(buf[(i * 8) + (p \div 8)], p % 8)}

\* the loop of absorb_input running over the whole 200-byte buffer
AbsorbLanesWholeBuffer == 0..((BUF_BYTES \div 8) - 1)

\* the lanes absorb_input XORs into: i < RATE_BYTES / 8
AbsorbLanes == 0..((RATE_BYTES \div 8) - 1)

\* where lane i of the block goes: state[i / 5][i % 5]
AbsorbTarget(i) == (i \div 5) * 5 + (i % 5)

absorb_input(buf, st) ==
    [t \in 0..24 |->
        IF \E i \in AbsorbLanes : AbsorbTarget(i) = t
        THEN XOR64(st[t], InputWord(buf, CHOOSE i \in AbsorbLanes : AbsorbTarget(i) = t))
        ELSE st[t]]

---------------------------------------------------------------------------
(* keccak: the four steps of one round *)

\* temp_row[i]: the parity of column i
ColumnParity(st, i) ==
    XOR64(XOR64(XOR64(XOR64(XOR64(ZeroLane, st[i]), st[5 + i]), st[10 + i]),
                st[15 + i]), st[20 + i])

Theta(st) ==
    LET parity == [i \in 0..4 |-> ColumnParity(st, i)]
        temp == [i \in 0..4 |-> XOR64(parity[(i + 4) % 5], ROTL64(parity[(i + 1) % 5], 1))]
    IN  [t \in 0..24 |-> XOR64(st[t], temp[t % 5])]

\* the rho/pi loop saving the carried lane after it has been overwritten
RECURSIVE RhoPiLoopLateSave(_, _, _)
RhoPiLoopLateSave(st, temp_lane, i) ==
    IF i < 24
    THEN LET j == Pi(i)
             rotated == ROTL64(temp_lane, Rho(i))
         IN  RhoPiLoopLateSave([st EXCEPT ![(j \div 5) * 5 + (j % 5)] = rotated],
                               rotated, i + 1)
    ELSE st

\* iterations i .. 23 of the rho/pi loop, temp_lane being the carried lane
RECURSIVE RhoPiLoop(_, _, _)
RhoPiLoop(st, temp_lane, i) ==
    IF i < 24
    THEN LET j == Pi(i)
             saved == st[(j \div 5) * 5 + (j % 5)]
         IN  RhoPiLoop([st EXCEPT ![(j \div 5) * 5 + (j % 5)] = ROTL64(temp_lane, Rho(i))],
                       saved, i + 1)
    ELSE st

RhoPi(st) == RhoPiLoop(st, st[1], 0)

Chi(st) ==
    [t \in 0..24 |->
        LET i == t \div 5
            j == t % 5
        IN  XOR64(st[t], AND64(NOT64(st[i * 5 + ((j + 1) % 5)]),
                               st[i * 5 + ((j + 2) % 5)]))]

Iota(st, r) == [st EXCEPT ![0] = XOR64(st[0], RC(r))]

---------------------------------------------------------------------------
(* Output formatting *)

HexLower == <<"0", "1", "2", "3", "4", "5", "6", "7",
              "8", "9", "a", "b", "c", "d", "e", "f">>
HexUpper == <<"0", "1", "2", "3", "4", "5", "6", "7",
              "8", "9", "A", "B", "C", "D", "E", "F">>

\* the value of hex digit k (digit 0 is the least significant) of a lane
Nibble(x, k) ==
    (IF 4 * k \in x THEN 1 ELSE 0) + (IF 4 * k + 1 \in x THEN 2 ELSE 0) +
    (IF 4 * k + 2 \in x THEN 4 ELSE 0) + (IF 4 * k + 3 \in x THEN 8 ELSE 0)

\* the most significant non-zero hex digit of a lane (0 for the zero lane)
TopNibble(x) ==
    IF x = {} THEN 0 ELSE (CHOOSE b \in x : \A c \in x : c <= b) \div 4

RECURSIVE HexDigits(_, _)
HexDigits(x, k) ==
    IF k < 0 THEN "" ELSE HexLower[Nibble(x, k) + 1] \o HexDigits(x, k - 1)

\* printf("%lx", x): lowercase hex, most significant digit first, no leading zeros
Fmt_lx(x) == HexDigits(x, TopNibble(x))

\* printf("%02X ", (uint8_t)(x >> (j * 8)))
Fmt_02X(x, j) ==
    HexUpper[Nibble(x, 2 * j + 1) + 1] \o HexUpper[Nibble(x, 2 * j) + 1] \o " "

\* the eight bytes of one lane as the verbose loop prints them
VerboseLane(x) ==
    Fmt_02X(x, 0) \o Fmt_02X(x, 1) \o Fmt_02X(x, 2) \o Fmt_02X(x, 3) \o
    Fmt_02X(x, 4) \o Fmt_02X(x, 5) \o Fmt_02X(x, 6) \o Fmt_02X(x, 7)

\* the "Hash val is" loop: state[0][0..3], a newline after every second lane
VerboseHash(st) ==
    VerboseLane(st[0]) \o VerboseLane(st[1]) \o "\n" \o
    VerboseLane(st[2]) \o VerboseLane(st[3]) \o "\n"

\* printf("0x%lx%lx%lx%lx\n", state[0][0], state[0][1], state[0][2], state[0][4])
PrintedResult(st) ==
    "0x" \o Fmt_lx(st[0]) \o Fmt_lx(st[1]) \o Fmt_lx(st[2]) \o Fmt_lx(st[4])

---------------------------------------------------------------------------
(* main of sha3-256.c *)

PrimesIdle ==
    /\ ppc = "idle"
    /\ mpz_n = 0
    /\ mpz_q = 0
    /\ loop_i = 0
    /\ verdict = <<>>
    /\ generators = {}

ShaInit ==
    /\ pc = "open"
    /\ verbose \in BOOLEAN
    /\ \E len \in 0..MaxLen, seed \in 0..MaxSeed :
          infile = [len |-> len, seed |-> seed, pos |-> 0, err |-> FALSE, open |-> FALSE]
    /\ input = ZeroBuf
    /\ bytes_read = 0
    /\ state = [t \in 0..24 |-> ZeroLane]
    /\ round = 0
    /\ kpc = "theta"
    /\ absorbed = <<>>
    /\ permuted = 0
    /\ rounds_run = 0
    /\ hashval = ""
    /\ result = ""

Init == ShaInit /\ PrimesIdle

\* fopen succeeds
OpenFile ==
    /\ pc = "open"
    /\ infile' = [infile EXCEPT !.open = TRUE]
    /\ pc' = "read"
    /\ UNCHANGED <<verbose, input, bytes_read, state, round, kpc, absorbed,
                   permuted, rounds_run, hashval, result, pvars>>

\* the first fread, before the loop
ReadFirst ==
    /\ pc = "read"
    /\ LET cnt == FreadCount(infile)
       IN  /\ input' = FreadInto(input, infile, cnt)
           /\ bytes_read' = cnt
           /\ infile' = [infile EXCEPT !.pos = @ + cnt]
    /\ pc' = "pad"
    /\ UNCHANGED <<verbose, state, round, kpc, absorbed, permuted, rounds_run,
                   hashval, result, pvars>>

PadInput ==
    /\ pc = "pad"
    /\ input' = pad_input(input, bytes_read)
    /\ pc' = "absorb"
    /\ UNCHANGED <<verbose, infile, bytes_read, state, round, kpc, absorbed,
                   permuted, rounds_run, hashval, result, pvars>>

AbsorbInput ==
    /\ pc = "absorb"
    /\ state' = absorb_input(input, state)
    /\ absorbed' = Append(absorbed, bytes_read)
    /\ pc' = "keccak"
    /\ round' = 0
    /\ kpc' = "theta"
    /\ rounds_run' = 0
    /\ UNCHANGED <<verbose, infile, input, bytes_read, permuted, hashval,
                   result, pvars>>

ThetaStep ==
    /\ pc = "keccak"
    /\ round < KECCAK_ROUNDS
    /\ kpc = "theta"
    /\ state' = Theta(state)
    /\ kpc' = "rhopi"
    /\ UNCHANGED <<pc, verbose, infile, input, bytes_read, round, absorbed,
                   permuted, rounds_run, hashval, result, pvars>>

RhoPiStep ==
    /\ pc = "keccak"
    /\ kpc = "rhopi"
    /\ state' = RhoPi(state)
    /\ kpc' = "chi"
    /\ UNCHANGED <<pc, verbose, infile, input, bytes_read, round, absorbed,
                   permuted, rounds_run, hashval, result, pvars>>

ChiStep ==
    /\ pc = "keccak"
    /\ kpc = "chi"
    /\ state' = Chi(state)
    /\ kpc' = "iota"
    /\ UNCHANGED <<pc, verbose, infile, input, bytes_read, round, absorbed,
                   permuted, rounds_run, hashval, result, pvars>>

IotaStep ==
    /\ pc = "keccak"
    /\ kpc = "iota"
    /\ state' = Iota(state, round)
    /\ round' = round + 1
    /\ rounds_run' = rounds_run + 1
    /\ kpc' = "theta"
    /\ UNCHANGED <<pc, verbose, infile, input, bytes_read, absorbed, permuted,
                   hashval, result, pvars>>

\* the round loop ends and keccak returns
KeccakReturn ==
    /\ pc = "keccak"
    /\ kpc = "theta"
    /\ ~(round < KECCAK_ROUNDS)
    /\ permuted' = permuted + 1
    /\ pc' = "more"
    /\ UNCHANGED <<verbose, infile, input, bytes_read, state, round, kpc,
                   absorbed, rounds_run, hashval, result, pvars>>

\* a loop test that also looks for end of file
LoopContinuesIfData == bytes_read = RATE_BYTES /\ infile.pos < infile.len

\* the test at the end of the loop body: is there more input to read?
LoopContinues == bytes_read = RATE_BYTES

\* bytes_read == RATE_BYTES: memset and the next fread
ReadMore ==
    /\ pc = "more"
    /\ LoopContinues
    /\ LET cnt == FreadCount(infile)
       IN  /\ input' = FreadInto(ZeroBuf, infile, cnt)
           /\ bytes_read' = cnt
           /\ infile' = [infile EXCEPT !.pos = @ + cnt]
    /\ pc' = "pad"
    /\ UNCHANGED <<verbose, state, round, kpc, absorbed, permuted, rounds_run,
                   hashval, result, pvars>>

\* else break
Break ==
    /\ pc = "more"
    /\ ~LoopContinues
    /\ pc' = "print"
    /\ UNCHANGED <<verbose, infile, input, bytes_read, state, round, kpc,
                   absorbed, permuted, rounds_run, hashval, result, pvars>>

\* the output after the loop, then free and fclose
PrintResult ==
    /\ pc = "print"
    /\ hashval' = IF verbose THEN VerboseHash(state) ELSE ""
    /\ result' = PrintedResult(state)
    /\ infile' = [infile EXCEPT !.open = FALSE]
    /\ pc' = "done"
    /\ UNCHANGED <<verbose, input, bytes_read, state, round, kpc, absorbed,
                   permuted, rounds_run, pvars>>

Next ==
    \/ OpenFile
    \/ ReadFirst
    \/ PadInput
    \/ AbsorbInput
    \/ ThetaStep
    \/ RhoPiStep
    \/ ChiStep
    \/ IotaStep
    \/ KeccakReturn
    \/ ReadMore
    \/ Break
    \/ PrintResult

Spec == Init /\ [][Next]_vars

---------------------------------------------------------------------------
(* The byte source failing: fopen returns NULL, or an fread hits a read    *)
(* error.  A failing fread yields fewer bytes than the rate (the bytes it  *)
(* got before the error, at most MaxErrBytes here) and sets the stream's   *)
(* error indicator; main never calls ferror and goes on as at end of file. *)

\* fopen fails: the error message, return -1
OpenFail ==
    /\ pc = "open"
    /\ infile' = [infile EXCEPT !.err = TRUE]
    /\ pc' = "exit"
    /\ UNCHANGED <<verbose, input, bytes_read, state, round, kpc, absorbed,
                   permuted, rounds_run, hashval, result, pvars>>

\* how many bytes a failing fread may yield
ErrCounts(f) == 0..Min(MaxErrBytes, Min(RATE_BYTES - 1, f.len - f.pos))

ReadFirstErr ==
    /\ pc = "read"
    /\ \E cnt \in ErrCounts(infile) :
          /\ input' = FreadInto(input, infile, cnt)
          /\ bytes_read' = cnt
          /\ infile' = [infile EXCEPT !.pos = @ + cnt, !.err = TRUE]
    /\ pc' = "pad"
    /\ UNCHANGED <<verbose, state, round, kpc, absorbed, permuted, rounds_run,
                   hashval, result, pvars>>

ReadMoreErr ==
    /\ pc = "more"
    /\ LoopContinues
    /\ \E cnt \in ErrCounts(infile) :
          /\ input' = FreadInto(ZeroBuf, infile, cnt)
          /\ bytes_read' = cnt
          /\ infile' = [infile EXCEPT !.pos = @ + cnt, !.err = TRUE]
    /\ pc' = "pad"
    /\ UNCHANGED <<verbose, state, round, kpc, absorbed, permuted, rounds_run,
                   hashval, result, pvars>>

NextIO ==
    \/ Next
    \/ OpenFail
    \/ ReadFirstErr
    \/ ReadMoreErr

SpecIO == Init /\ [][NextIO]_vars

---------------------------------------------------------------------------
(* primes.c *)

\* reps of mpz_probab_prime_p
MILLER_RABIN_REPS == 32

\* mpz_probab_prime_p(x, reps) != 0; exact for the small numbers of the model
ProbabPrime(x, reps) == x > 1 /\ \A d \in 2..(x - 1) : x % d # 0

\* mpz_powm / mpz_powm_ui: (base ^ e) mod m
RECURSIVE PowMod(_, _, _)
PowMod(base, e, m) ==
    IF e = 0 THEN 1 % m ELSE (PowMod(base, e - 1, m) * (base % m)) % m

\* the three tests of one loop iteration: none of 1, 2, q is an exponent
\* that takes i to 1
PrintsGenerator(i, nn, qq) ==
    /\ PowMod(i, 1, nn) # 1
    /\ PowMod(i, 2, nn) # 1
    /\ PowMod(i, qq, nn) # 1

ShaIdle ==
    /\ pc = "idle"
    /\ verbose = FALSE
    /\ infile = [len |-> 0, seed |-> 0, pos |-> 0, err |-> FALSE, open |-> FALSE]
    /\ input = ZeroBuf
    /\ bytes_read = 0
    /\ state = [t \in 0..24 |-> ZeroLane]
    /\ round = 0
    /\ kpc = "theta"
    /\ absorbed = <<>>
    /\ permuted = 0
    /\ rounds_run = 0
    /\ hashval = ""
    /\ result = ""

PrimesInit ==
    /\ ppc = "prime"
    /\ mpz_n \in 0..MaxN
    /\ mpz_q = 0
    /\ loop_i = 0
    /\ verdict = <<>>
    /\ generators = {}

\* is the input prime?
CheckPrime ==
    /\ ppc = "prime"
    /\ IF ~ProbabPrime(mpz_n, MILLER_RABIN_REPS)
       THEN /\ verdict' = Append(verdict, "input is not prime")
            /\ ppc' = "exit"
       ELSE /\ verdict' = Append(verdict, "input is prime")
            /\ ppc' = "two"
    /\ UNCHANGED <<mpz_n, mpz_q, loop_i, generators, svars>>

\* 2 is not a safe prime
CheckTwo ==
    /\ ppc = "two"
    /\ IF mpz_n = 2
       THEN /\ verdict' = Append(verdict, "input is not a safe prime")
            /\ ppc' = "exit"
       ELSE /\ verdict' = verdict
            /\ ppc' = "safe"
    /\ UNCHANGED <<mpz_n, mpz_q, loop_i, generators, svars>>

\* q = (n - 1) / 2; is q prime?
CheckSafe ==
    /\ ppc = "safe"
    /\ mpz_q' = (mpz_n - 1) \div 2
    /\ IF ~ProbabPrime(mpz_q', MILLER_RABIN_REPS)
       THEN /\ verdict' = Append(verdict, "input is not a safe prime")
            /\ ppc' = "exit"
            /\ loop_i' = loop_i
       ELSE /\ verdict' = Append(verdict, "input is a safe prime")
            /\ ppc' = "loop"
            /\ loop_i' = 1
    /\ UNCHANGED <<mpz_n, generators, svars>>

\* one iteration of for (i = 1; i <= 20; i++)
GeneratorIter ==
    /\ ppc = "loop"
    /\ loop_i <= 20
    /\ generators' = IF PrintsGenerator(loop_i, mpz_n, mpz_q)
                     THEN generators \cup {loop_i}
                     ELSE generators
    /\ loop_i' = loop_i + 1
    /\ UNCHANGED <<ppc, mpz_n, mpz_q, verdict, svars>>

GeneratorExit ==
    /\ ppc = "loop"
    /\ ~(loop_i <= 20)
    /\ ppc' = "exit"
    /\ UNCHANGED <<mpz_n, mpz_q, loop_i, verdict, generators, svars>>

NextPrimes ==
    \/ CheckPrime
    \/ CheckTwo
    \/ CheckSafe
    \/ GeneratorIter
    \/ GeneratorExit

InitPrimes == PrimesInit /\ ShaIdle

SpecPrimes == InitPrimes /\ [][NextPrimes]_vars

---------------------------------------------------------------------------
(* Properties of the sponge driver *)

\* C1: every run on an input of n bytes ends after exactly n \div 136 + 1
\* absorb+permute passes, the first n \div 136 on full unpadded blocks (the
\* buffer holds the 136 file bytes) and the last on a padded block with
\* L = n % 136, also when n is a multiple of 136 (then L = 0); a short read
\* is the last read.  Until main is done one of its statements can run (pc is
\* at a statement of main, and inside keccak at a step of a round not beyond
\* the 24th), so with the passes bounded every run reaches the end of main.
C1_PassCount ==
    LET n == infile.len
        full == n \div 136
    IN  /\ pc \in {"open", "read", "pad", "absorb", "keccak", "more", "print", "done"}
        /\ pc = "keccak" => kpc \in {"theta", "rhopi", "chi", "iota"} /\ round <= 24
        /\ Len(absorbed) <= full + 1
        /\ \A k \in 1..Len(absorbed) :
              absorbed[k] = IF k <= full THEN 136 ELSE n % 136
        /\ (pc = "absorb" /\ bytes_read = 136) =>
              \A k \in 0..135 : input[k] = FileByte(infile, infile.pos - 136 + k)
        /\ pc \in {"print", "done"} =>
              /\ Len(absorbed) = full + 1
              /\ permuted = full + 1
              /\ infile.pos = n

\* a run on exactly one full block has made its second, empty padded pass
C1_Witness ==
    pc = "done" /\ infile.len = 136 /\ absorbed = <<136, 0>> /\ permuted = 2

\* C2: the block absorbed after pad_input was called with L = bytes_read < 136
\* holds the L bytes read, then 0x86 (L = 135), or 0x06 0x80 (L = 134), or
\* 0x06, zeros up to offset 134 and 0x80 at offset 135 (L <= 133); pad_input
\* changes no byte below offset L or above offset 135, and none at all when
\* L = 136.
C2_PaddedBlock ==
    /\ [](pc = "absorb" /\ bytes_read < 136 =>
            LET L == bytes_read
            IN  /\ \A k \in 0..(L - 1) : input[k] = FileByte(infile, infile.pos - L + k)
                /\ L = 135 => input[135] = 134
                /\ L = 134 => input[134] = 6 /\ input[135] = 128
                /\ L <= 133 => /\ input[L] = 6
                               /\ \A k \in (L + 1)..134 : input[k] = 0
                               /\ input[135] = 128)
    /\ [][pc = "pad" /\ pc' = "absorb" =>
            /\ \A k \in 0..199 : (k < bytes_read \/ k > 135) => input'[k] = input[k]
            /\ bytes_read = 136 => input' = input]_vars

\* a block with L = 133, where the zero-filling loop of pad_input does not run
C2_Witness ==
    /\ pc = "absorb"
    /\ bytes_read = 133
    /\ input[132] = FileByte(infile, 132)
    /\ input[133] = 6
    /\ input[134] = 0
    /\ input[135] = 128

---------------------------------------------------------------------------
(* Properties of the digest output *)

\* byte j of a lane as two lowercase hex digits
ByteHex(x, j) == HexLower[Nibble(x, 2 * j + 1) + 1] \o HexLower[Nibble(x, 2 * j) + 1]

\* a lane serialized as 8 little-endian bytes, in hex
LaneBytesHex(x) ==
    ByteHex(x, 0) \o ByteHex(x, 1) \o ByteHex(x, 2) \o ByteHex(x, 3) \o
    ByteHex(x, 4) \o ByteHex(x, 5) \o ByteHex(x, 6) \o ByteHex(x, 7)

\* the first 32 bytes of the rate region, in hex
SqueezedHex(st) ==
    LaneBytesHex(st[0]) \o LaneBytesHex(st[1]) \o LaneBytesHex(st[2]) \o LaneBytesHex(st[3])

\* the hex digits of a printed number, without a leading "0x"
HexPart(s) ==
    IF Len(s) >= 2 /\ SubSeq(s, 1, 2) = "0x" THEN SubSeq(s, 3, Len(s)) ELSE s

IsLowerHex(s) ==
    \A k \in 1..Len(s) :
        SubSeq(s, k, k) \in {"0", "1", "2", "3", "4", "5", "6", "7",
                             "8", "9", "a", "b", "c", "d", "e", "f"}

\* C3: the digest printed at the end is the lanes (0,0), (0,1), (0,2), (0,3)
\* of the final state, each as 8 little-endian bytes, concatenated.
C3_DigestFromFirstFourLanes ==
    pc = "done" => HexPart(result) = SqueezedHex(state)

\* C4: the digest printed is always 64 lowercase hex characters, whatever
\* the values of the lanes.
C4_DigestLength ==
    pc = "done" => Len(HexPart(result)) = 64 /\ IsLowerHex(HexPart(result))

\* C5: the digest printed for the empty input is the SHA3-256 test vector.
C5_EmptyInputVector ==
    (pc = "done" /\ infile.len = 0) =>
        HexPart(result) = "a7ffc6f8bf1ed76651c14756a061d662f580ff4de43b49fa82d80a4b80f8434a"

---------------------------------------------------------------------------
(* Properties of absorb_input *)

\* the block bytes 8i .. 8i+7 read as a little-endian 64-bit word
LittleEndianWord(buf, i) ==
    {p \in 0..63 : (buf[8 * i + (p \div 8)] \div (2 ^ (p % 8))) % 2 = 1}

\* buffers whose 200 bytes are all non-zero, the capacity part included
ProbeBufs == {[k \in 0..199 |-> fill] : fill \in {255, 165}}

\* C6: absorb_input XORs block lane i (8 little-endian bytes) into the lane
\* at flat index i for i in 0..16 and leaves the lanes 17..24 as they are,
\* in the driver's call and for buffers that are non-zero everywhere; over
\* a run the lanes 17..24 change only in steps of keccak.
C6_CapacityUntouched ==
    /\ [](pc = "absorb" =>
            \A buf \in ProbeBufs \cup {input} :
                LET out == absorb_input(buf, state)
                IN  /\ \A t \in 17..24 : out[t] = state[t]
                    /\ \A i \in 0..16 :
                          out[(i \div 5) * 5 + (i % 5)] =
                              XOR64(state[i], LittleEndianWord(buf, i)))
    /\ [][pc = "absorb" => \A t \in 17..24 : state'[t] = state[t]]_vars
    /\ [][(\E t \in 17..24 : state'[t] # state[t]) => pc = "keccak" /\ pc' = "keccak"]_vars

\* the second block has been absorbed into a state whose capacity lanes are
\* not zero
C6_Witness ==
    /\ pc = "keccak"
    /\ round = 0
    /\ kpc = "theta"
    /\ Len(absorbed) = 2
    /\ \A t \in 17..24 : state[t] # {}

---------------------------------------------------------------------------
(* Properties of the failing byte source *)

\* C7: a digest is printed only on runs in which no read failed and the
\* whole input was read.
C7_NoDigestAfterReadError ==
    result # "" => ~infile.err /\ infile.pos = infile.len

---------------------------------------------------------------------------
(* Properties of keccak *)

\* C8: inside keccak the steps run in the order theta, rho+pi, chi, iota,
\* a round at a time; iota XORs round_constants[round] into lane 0 and
\* changes no other lane; the round counter moves only at iota, by one; and
\* keccak returns only after 24 rounds, for every input and verbose flag.
C8_TwentyFourRounds ==
    /\ [](pc = "keccak" => rounds_run = round /\ round <= 24)
    /\ [][pc = "absorb" => pc' = "keccak" /\ round' = 0 /\ kpc' = "theta"]_vars
    /\ [][pc = "keccak" /\ pc' = "keccak" =>
            /\ round < 24
            /\ kpc = "theta" => kpc' = "rhopi" /\ round' = round
            /\ kpc = "rhopi" => kpc' = "chi" /\ round' = round
            /\ kpc = "chi" => kpc' = "iota" /\ round' = round
            /\ kpc = "iota" =>
                  /\ kpc' = "theta"
                  /\ round' = round + 1
                  /\ state'[0] = XOR64(state[0], round_constants[round + 1])
                  /\ \A t \in 1..24 : state'[t] = state[t]]_vars
    /\ [][pc = "keccak" /\ pc' # "keccak" =>
            rounds_run = 24 /\ kpc = "theta" /\ state' = state]_vars

\* the second keccak call of a verbose run has finished its 24th round
C8_Witness ==
    /\ pc = "keccak"
    /\ verbose
    /\ permuted = 1
    /\ rounds_run = 24
    /\ kpc = "theta"

\* C10: the rho/pi step leaves, for every i in 0..23, at flat index
\* pi_shifts[i] the lane that was at pi_shifts[i-1] (at index 1 for i = 0)
\* rotated left by rho_rotations[i]; pi_shifts holds each of 1..24 once and
\* ends at 1; lane 0 is unchanged.
C10_RhoPiNetEffect ==
    /\ [](/\ {pi_shifts[k] : k \in 1..24} = 1..24
          /\ pi_shifts[24] = 1)
    /\ [][pc = "keccak" /\ kpc = "rhopi" =>
            /\ \A i \in 0..23 :
                  state'[pi_shifts[i + 1]] =
                      ROTL64(state[IF i = 0 THEN 1 ELSE pi_shifts[i]], rho_rotations[i + 1])
            /\ state'[0] = state[0]]_vars

\* a rho/pi step of the last round has moved 24 pairwise different lanes
C10_Witness ==
    /\ pc = "keccak"
    /\ kpc = "chi"
    /\ round = 23
    /\ Cardinality({state[t] : t \in 0..24}) = 25

---------------------------------------------------------------------------
(* Properties of primes.c *)

\* i is a full-period generator mod m: its powers i^1 .. i^(m-1) are all of
\* 1 .. m-1, that is, its multiplicative order is m - 1
FullPeriod(i, m) == {PowMod(i, k, m) : k \in 1..(m - 1)} = 1..(m - 1)

\* C9: for an input classified as a safe prime the numbers printed as full
\* period generators are exactly the full-period generators in 1..20.
C9_GeneratorsExact ==
    (ppc = "exit" /\ Len(verdict) = 2 /\ verdict[2] = "input is a safe prime") =>
        generators = {i \in 1..20 : FullPeriod(i, mpz_n)}

=============================================================================
